---- MODULE Spec2Model ----
(***************************************************************************)
(* discovercars-crawler: the multi-threaded BFS crawl of crawler.py.       *)
(*                                                                         *)
(* The state is the disk (the two sinks and the checkpoint file) and the   *)
(* memory of one process: the main thread of crawl(), the worker threads,  *)
(* the writer thread, the prefix queue, the rows queue and the seen set.   *)
(* A kill of the process throws the memory away and keeps the disk.        *)
(*                                                                         *)
(* Granularity.  A step of a thread that touches nothing shared is joined  *)
(* to the next shared access of that thread: the answer of the HTTP call   *)
(* with the increment of the processed counter (lines 97-102, 157-158),    *)
(* the two argument reads of the periodic save_state (lines 229-230), and  *)
(* rows_q.get() with the CSV append of the writer (lines 131, 70-72).      *)
(***************************************************************************)
EXTENDS Integers, Sequences, FiniteSets, TLC

\* ---- bounds of the model ------------------------------------------------
NumWorkers     == 2    \* threads of the pool (N_THREADS in the code)
AlphabetSize   == 2    \* letters of the alphabet (string.ascii_lowercase)
RowsQCap       == 1    \* capacity of rows_q (maxsize in the code)
MaxKills       == 1    \* kills of the process in one behaviour
MaxBackups     == 1    \* periodic backups in one behaviour
MaxFaults      == 1    \* queries of one behaviour that do not answer 200
MaxResumeChain == 1    \* deepest Record Source of the kill-and-resume runs
MaxProxies     == 3    \* longest list of proxies

\* ---- program constants --------------------------------------------------
MAX_DEPTH    == 4
PageLimit    == 10
ApiRetries   == 3

Workers  == 1..NumWorkers
Alphabet == 1..AlphabetSize

\* ---- the Record Source ---------------------------------------------------
\* The endpoint behind api_call is an autocomplete over a catalogue: a record
\* matches a prefix when one of its names starts with it, and the answer is
\* the first PageLimit matches in catalogue order.  Source number n holds
\* PageLimit records named "1" n times (every prefix 1, 11, ... of at most n
\* letters is answered with a full page) and two records of another location:
\* one matched under the letters 1 and 2 both, one under the letter 2 only.
IsPrefixOf(p, s) == Len(p) <= Len(s) /\ SubSeq(s, 1, Len(p)) = p

Catalogue(n) ==
    [i \in 1..PageLimit |->
        [location |-> "L1", placeID |-> i, names |-> {[j \in 1..n |-> 1]}]]
    \o << [location |-> "L2", placeID |-> 1, names |-> {<<1, 2>>, <<2, 1>>}],
          [location |-> "L2", placeID |-> 2, names |-> {<<2, 2>>}] >>

Matches(rec, p) == \E n \in rec.names : IsPrefixOf(p, n)

RECURSIVE FirstMatches(_, _, _)
FirstMatches(cat, p, n) ==
    IF cat = <<>> \/ n = 0 THEN <<>>
    ELSE IF Matches(Head(cat), p)
         THEN <<[location |-> Head(cat).location, placeID |-> Head(cat).placeID]>>
              \o FirstMatches(Tail(cat), p, n - 1)
         ELSE FirstMatches(Tail(cat), p, n)

\* r.json() of a 200 answer
Query(n, p) == FirstMatches(Catalogue(n), p, PageLimit)

\* uid = f"{obj['location']}:{obj['placeID']}"
uid(obj) == obj.location \o ":" \o ToString(obj.placeID)

UidsOf(rows) == {uid(rows[i]) : i \in 1..Len(rows)}

AllUids == UidsOf(Catalogue(0))

\* list(string.ascii_lowercase): the seeds of a fresh start
Seeds == [i \in 1..AlphabetSize |-> <<i>>]

NoFile == [exists |-> FALSE, seen_ids |-> {}, queue |-> <<>>, processed |-> 0]

VARIABLES
    source,             \* the Record Source the endpoint serves (its number)
    PROXY_LIST,         \* the proxies read from proxies.txt
    sess,               \* worker local: the proxy of its session, 0: none yet
    csv,                \* rows of CSV_PATH, in file order
    jsonl,              \* lines of JSON_PATH, in file order
    state_file,         \* STATE_PATH: NoFile or the pickled snapshot
    mainpc,             \* position of the main thread in crawl()
    seen_ids,           \* the shared set of uids
    prefix_q,           \* prefix_q.queue
    rows_q,             \* rows_q.queue: batches, or the None sentinel
    processed_counter,  \* processed_counter[0]
    pc,                 \* position of each worker
    prefix,             \* worker local: the prefix dequeued
    data,               \* worker local: api_call's result
    new_rows,           \* worker local: the rows to forward
    ch,                 \* worker local: index of the next child to put
    retries,            \* api_call's retries argument
    status,             \* r.status_code of the worker's last response
    wpc,                \* position of the writer thread
    wrows,              \* writer local: rows
    bq,                 \* main local: list(prefix_q.queue) taken for a backup
    bproc,              \* main local: processed_counter[0] read for a backup
    kills,              \* kills so far
    backups,            \* periodic backups so far
    faults,             \* queries so far that did not answer 200
    loaded_seen,        \* history: the seen set load_previous returned
    forwarded,          \* history: uids put on rows_q in this run, with counts
    inserted,           \* history: children a worker put for its prefix
    bseen,              \* history: seen_ids in the last state of a backup in
                        \* which queue and counter still were as copied
    entered,            \* history: the prefixes put on prefix_q in this run
    handed              \* history: the prefixes prefix_q.get returned

disk   == <<csv, jsonl, state_file>>
shared == <<seen_ids, prefix_q, rows_q, processed_counter>>
wlocal == <<pc, prefix, data, new_rows, ch, retries, status>>
writer == <<wpc, wrows>>
mlocal == <<mainpc, bq, bproc>>
env    == <<source, kills, backups, faults>>
hist   == <<loaded_seen, forwarded, inserted, bseen, entered, handed>>
egress == <<PROXY_LIST, sess>>
vars   == <<disk, shared, wlocal, writer, mlocal, env, hist, egress>>

\* ---- the state before crawl() is called -----------------------------------
NotRunning ==
    /\ mainpc = "init"
    /\ seen_ids = {}
    /\ prefix_q = <<>>
    /\ rows_q = <<>>
    /\ processed_counter = 0
    /\ pc = [w \in Workers |-> "unborn"]
    /\ prefix = [w \in Workers |-> <<>>]
    /\ data = [w \in Workers |-> <<>>]
    /\ new_rows = [w \in Workers |-> <<>>]
    /\ ch = [w \in Workers |-> 0]
    /\ retries = [w \in Workers |-> 0]
    /\ status = [w \in Workers |-> 0]
    /\ sess = [w \in Workers |-> 0]
    /\ wpc = "unborn"
    /\ wrows = <<>>
    /\ bq = <<>>
    /\ bproc = 0
    /\ loaded_seen = {}
    /\ forwarded = [k \in AllUids |-> 0]
    /\ inserted = [w \in Workers |-> <<>>]
    /\ bseen = {}
    /\ entered = {}
    /\ handed = {}

\* a list of n proxies, all different
ProxyList(n) == [i \in 1..n |-> i]

\* no file on disk, any Record Source, one proxy for each thread (line 34:
\* as many threads as proxies)
Init ==
    /\ source \in 0..MAX_DEPTH
    /\ PROXY_LIST = ProxyList(NumWorkers)
    /\ csv = <<>>
    /\ jsonl = <<>>
    /\ state_file = NoFile
    /\ kills = 0
    /\ backups = 0
    /\ faults = 0
    /\ NotRunning

\* ---- load_previous / save_state -----------------------------------------
load_previous ==
    IF ~state_file.exists
    THEN [seen_ids |-> {}, queue |-> Seeds, processed |-> 0]
    ELSE [seen_ids |-> state_file.seen_ids, queue |-> state_file.queue,
          processed |-> state_file.processed]

save_state(seen, queue, processed) ==
    [exists |-> TRUE, seen_ids |-> seen, queue |-> queue, processed |-> processed]

\* ---- helpers of the worker loop -------------------------------------------
\* the loop of lines 161-165 without the test of line 163
RECURSIVE DedupLoop_NoTest(_, _, _)
DedupLoop_NoTest(objs, seen, rows) ==
    IF objs = <<>> THEN [seen |-> seen, rows |-> rows]
    ELSE DedupLoop_NoTest(Tail(objs), seen \cup {uid(Head(objs))},
                          Append(rows, Head(objs)))

\* the loop of lines 161-165, run under seen_lock
RECURSIVE DedupLoop(_, _, _)
DedupLoop(objs, seen, rows) ==
    IF objs = <<>> THEN [seen |-> seen, rows |-> rows]
    ELSE IF uid(Head(objs)) \notin seen
         THEN DedupLoop(Tail(objs), seen \cup {uid(Head(objs))},
                        Append(rows, Head(objs)))
         ELSE DedupLoop(Tail(objs), seen, rows)

\* line 171 without its first conjunct
ShouldExpand_AnyCount(d, p) == Len(p) < MAX_DEPTH

\* line 171 without its second conjunct
ShouldExpand_AnyDepth(d, p) == Len(d) = PageLimit

\* line 171: if len(data) == 10 and len(prefix) < MAX_DEPTH
ShouldExpand(d, p) == Len(d) = PageLimit /\ Len(p) < MAX_DEPTH

Batch(rows) == [stop |-> FALSE, rows |-> rows]
StopSignal  == [stop |-> TRUE, rows |-> <<>>]

is_alive(w) == pc[w] \notin {"unborn", "exited", "crashed"}

CountIn(rows, k) == Cardinality({i \in 1..Len(rows) : uid(rows[i]) = k})

\* line 149 with the first proxy for every thread
ProxyOf_First(thread_id) == PROXY_LIST[1]

\* line 149: PROXY_LIST[thread_id % len(PROXY_LIST)], the list counted from 0
ProxyOf(thread_id) == PROXY_LIST[(thread_id % Len(PROXY_LIST)) + 1]

\* ---- main thread: crawl() -------------------------------------------------
\* lines 182-206, 149: load the state, fill the queue, start writer and
\* workers; worker i of range(N_THREADS) makes its session
Start ==
    /\ mainpc = "init"
    /\ LET st == load_previous IN
         /\ seen_ids' = st.seen_ids
         /\ prefix_q' = st.queue
         /\ processed_counter' = st.processed
         /\ loaded_seen' = st.seen_ids
         /\ entered' = {st.queue[i] : i \in 1..Len(st.queue)}
    /\ handed' = {}
    /\ rows_q' = <<>>
    /\ wpc' = "get"
    /\ pc' = [w \in Workers |-> "get"]
    /\ mainpc' = "loop"
    /\ forwarded' = [k \in AllUids |-> 0]
    /\ sess' = [w \in Workers |-> ProxyOf(w - 1)]
    /\ UNCHANGED <<PROXY_LIST, disk, prefix, data, new_rows, ch, retries,
                   status, wrows, bq, bproc, env, inserted, bseen>>

\* lines 228-230: the backup is due; the arguments list(prefix_q.queue) and
\* processed_counter[0] of save_state are evaluated, seen_ids is passed by
\* reference
BackupCopy ==
    /\ mainpc = "loop"
    /\ \E w \in Workers : is_alive(w)
    /\ backups < MaxBackups
    /\ backups' = backups + 1
    /\ bq' = prefix_q
    /\ bproc' = processed_counter
    /\ bseen' = seen_ids
    /\ mainpc' = "backup_dump"
    /\ UNCHANGED <<egress, disk, shared, wlocal, writer, source, kills,
                   faults, loaded_seen, forwarded, inserted, entered, handed>>

\* lines 122-124: pickle.dump of the live seen set and the two copies
BackupDump ==
    /\ mainpc = "backup_dump"
    /\ state_file' = save_state(seen_ids, bq, bproc)
    /\ mainpc' = "loop"
    /\ bq' = <<>>
    /\ bproc' = 0
    /\ bseen' = {}
    /\ UNCHANGED <<egress, csv, jsonl, shared, wlocal, writer, env,
                   loaded_seen, forwarded, inserted, entered, handed>>

\* lines 214, 238: no worker is alive; rows_q.put(None)
MainStop ==
    /\ mainpc = "loop"
    /\ \A w \in Workers : ~is_alive(w)
    /\ Len(rows_q) < RowsQCap
    /\ rows_q' = Append(rows_q, StopSignal)
    /\ mainpc' = "join"
    /\ UNCHANGED <<egress, disk, seen_ids, prefix_q, processed_counter,
                   wlocal, writer, bq, bproc, env, hist>>

\* lines 239-241: writer.join() returns when the writer thread has ended, by
\* its break or by an exception; the final save_state, return
MainFinish ==
    /\ mainpc = "join"
    /\ wpc \in {"exited", "crashed"}
    /\ state_file' = save_state(seen_ids, <<>>, processed_counter)
    /\ mainpc' = "returned"
    /\ UNCHANGED <<egress, csv, jsonl, shared, wlocal, writer, bq, bproc, env,
                   hist>>

\* lines 245-254: Ctrl-C raises KeyboardInterrupt in the main thread, inside
\* the loop of crawl() or in writer.join(); crawl() has no handler, a
\* save_state under way is cut off, and the except clause of __main__ prints
\* its message
Interrupt ==
    /\ mainpc \in {"loop", "backup_dump", "join"}
    /\ mainpc' = "interrupted"
    /\ bq' = <<>>
    /\ bproc' = 0
    /\ bseen' = {}
    /\ UNCHANGED <<egress, disk, shared, wlocal, writer, env, loaded_seen,
                   forwarded, inserted, entered, handed>>

\* after line 254 the main thread ends and the interpreter exits; writer and
\* workers are daemon threads (lines 195, 204) and end with it, wherever they
\* are
Exit ==
    /\ mainpc = "interrupted"
    /\ mainpc' = "stopped"
    /\ seen_ids' = {}
    /\ prefix_q' = <<>>
    /\ rows_q' = <<>>
    /\ processed_counter' = 0
    /\ pc' = [w \in Workers |-> "unborn"]
    /\ prefix' = [w \in Workers |-> <<>>]
    /\ data' = [w \in Workers |-> <<>>]
    /\ new_rows' = [w \in Workers |-> <<>>]
    /\ ch' = [w \in Workers |-> 0]
    /\ retries' = [w \in Workers |-> 0]
    /\ status' = [w \in Workers |-> 0]
    /\ wpc' = "unborn"
    /\ wrows' = <<>>
    /\ loaded_seen' = {}
    /\ forwarded' = [k \in AllUids |-> 0]
    /\ inserted' = [w \in Workers |-> <<>>]
    /\ entered' = {}
    /\ handed' = {}
    /\ sess' = [w \in Workers |-> 0]
    /\ UNCHANGED <<PROXY_LIST, disk, bq, bproc, env, bseen>>

\* ---- worker(thread_id, ...) -------------------------------------------------
\* line 153 with a get that leaves the prefix at the head of the queue
Get_NoPop(w) ==
    /\ pc[w] = "get"
    /\ prefix_q # <<>>
    /\ prefix' = [prefix EXCEPT ![w] = Head(prefix_q)]
    /\ handed' = handed \cup {Head(prefix_q)}
    /\ prefix_q' = prefix_q
    /\ retries' = [retries EXCEPT ![w] = ApiRetries]
    /\ pc' = [pc EXCEPT ![w] = "api"]
    /\ UNCHANGED <<egress, disk, seen_ids, rows_q, processed_counter, data,
                   new_rows, ch, status, writer, mlocal, env, loaded_seen,
                   forwarded, inserted, bseen, entered>>

\* line 153: prefix_q.get(timeout=3) returns a prefix; line 156 calls api_call
Get(w) ==
    /\ pc[w] = "get"
    /\ prefix_q # <<>>
    /\ prefix' = [prefix EXCEPT ![w] = Head(prefix_q)]
    /\ handed' = handed \cup {Head(prefix_q)}
    /\ prefix_q' = Tail(prefix_q)
    /\ retries' = [retries EXCEPT ![w] = ApiRetries]
    /\ pc' = [pc EXCEPT ![w] = "api"]
    /\ UNCHANGED <<egress, disk, seen_ids, rows_q, processed_counter, data,
                   new_rows, ch, status, writer, mlocal, env, loaded_seen,
                   forwarded, inserted, bseen, entered>>

\* line 153 with a get that has no timeout: on an empty queue it waits
GetEmpty_NoTimeout(w) ==
    /\ pc[w] = "get"
    /\ prefix_q = <<>>
    /\ FALSE
    /\ pc' = [pc EXCEPT ![w] = "exited"]
    /\ UNCHANGED <<egress, disk, shared, prefix, data, new_rows, ch, retries,
                   status, writer, mlocal, env, hist>>

\* lines 154-155: the queue was empty for the whole timeout; the worker returns
GetEmpty(w) ==
    /\ pc[w] = "get"
    /\ prefix_q = <<>>
    /\ pc' = [pc EXCEPT ![w] = "exited"]
    /\ UNCHANGED <<egress, disk, shared, prefix, data, new_rows, ch, retries,
                   status, writer, mlocal, env, hist>>

\* lines 97-102, 157-158: status 200, the body is the answer of the Record
\* Source; the processed counter is incremented
ApiOk(w) ==
    /\ pc[w] = "api"
    /\ status' = [status EXCEPT ![w] = 200]
    /\ data' = [data EXCEPT ![w] = Query(source, prefix[w])]
    /\ processed_counter' = processed_counter + 1
    /\ pc' = [pc EXCEPT ![w] = "dedup"]
    /\ UNCHANGED <<egress, disk, seen_ids, prefix_q, rows_q, prefix, new_rows,
                   ch, retries, writer, mlocal, env, hist>>

\* lines 99-100, 157-158: status 404 is an empty result
ApiNotFound(w) ==
    /\ pc[w] = "api"
    /\ faults < MaxFaults
    /\ faults' = faults + 1
    /\ status' = [status EXCEPT ![w] = 404]
    /\ data' = [data EXCEPT ![w] = <<>>]
    /\ processed_counter' = processed_counter + 1
    /\ pc' = [pc EXCEPT ![w] = "dedup"]
    /\ UNCHANGED <<egress, disk, seen_ids, prefix_q, rows_q, prefix, new_rows,
                   ch, retries, writer, mlocal, source, kills, backups, hist>>

\* line 101: the transport gave up its own retries (raise_on_status=False,
\* line 48) and handed over the 5xx answer; raise_for_status() raises
\* HTTPError, which lines 103-104 do not catch: it leaves api_call and
\* worker(), which has no handler, and the thread ends
ApiHTTPError(w) ==
    /\ pc[w] = "api"
    /\ faults < MaxFaults
    /\ faults' = faults + 1
    /\ status' = [status EXCEPT ![w] = 503]
    /\ pc' = [pc EXCEPT ![w] = "crashed"]
    /\ UNCHANGED <<egress, disk, shared, prefix, data, new_rows, ch, retries,
                   writer, mlocal, source, kills, backups, hist>>

\* lines 103-109 with a test of line 105 that lets retries 0 call again
ApiTimeout_OneMore(w) ==
    /\ pc[w] = "api"
    /\ IF retries[w] = ApiRetries
       THEN faults < MaxFaults /\ faults' = faults + 1
       ELSE UNCHANGED faults
    /\ IF retries[w] # -1
       THEN /\ retries' = [retries EXCEPT ![w] = retries[w] - 1]
            /\ UNCHANGED <<data, pc, processed_counter>>
       ELSE /\ data' = [data EXCEPT ![w] = <<>>]
            /\ processed_counter' = processed_counter + 1
            /\ pc' = [pc EXCEPT ![w] = "dedup"]
            /\ UNCHANGED retries
    /\ UNCHANGED <<egress, disk, seen_ids, prefix_q, rows_q, prefix, new_rows,
                   ch, status, writer, mlocal, source, kills, backups, hist>>

\* lines 103-109, 157-158: ReadTimeout / ConnectionError: call again with
\* retries-1, or give up with [] when retries is 0
ApiTimeout(w) ==
    /\ pc[w] = "api"
    /\ IF retries[w] = ApiRetries
       THEN faults < MaxFaults /\ faults' = faults + 1
       ELSE UNCHANGED faults
    /\ IF retries[w] # 0
       THEN /\ retries' = [retries EXCEPT ![w] = retries[w] - 1]
            /\ UNCHANGED <<data, pc, processed_counter>>
       ELSE /\ data' = [data EXCEPT ![w] = <<>>]
            /\ processed_counter' = processed_counter + 1
            /\ pc' = [pc EXCEPT ![w] = "dedup"]
            /\ UNCHANGED retries
    /\ UNCHANGED <<egress, disk, seen_ids, prefix_q, rows_q, prefix, new_rows,
                   ch, status, writer, mlocal, source, kills, backups, hist>>

\* lines 159-166: the whole loop runs with seen_lock held; save_state does
\* not take that lock, so the loop also runs between the argument reads of a
\* backup and its pickle.dump
Dedup(w) ==
    /\ pc[w] = "dedup"
    /\ LET r == DedupLoop(data[w], seen_ids, <<>>) IN
         /\ seen_ids' = r.seen
         /\ new_rows' = [new_rows EXCEPT ![w] = r.rows]
         /\ pc' = [pc EXCEPT ![w] = IF r.rows # <<>> THEN "emit" ELSE "expand"]
         /\ bseen' = IF /\ mainpc = "backup_dump"
                        /\ prefix_q = bq
                        /\ processed_counter = bproc
                     THEN r.seen
                     ELSE bseen
    /\ ch' = [ch EXCEPT ![w] = 1]
    /\ UNCHANGED <<egress, disk, prefix_q, rows_q, processed_counter, prefix,
                   data, retries, status, writer, mlocal, env, loaded_seen,
                   forwarded, inserted, entered, handed>>

\* line 167 with a put that does not wait for room
Emit_NoWait(w) ==
    /\ pc[w] = "emit"
    /\ rows_q' = Append(rows_q, Batch(new_rows[w]))
    /\ forwarded' = [k \in AllUids |-> forwarded[k] + CountIn(new_rows[w], k)]
    /\ pc' = [pc EXCEPT ![w] = "expand"]
    /\ UNCHANGED <<egress, disk, seen_ids, prefix_q, processed_counter,
                   prefix, data, new_rows, ch, retries, status, writer,
                   mlocal, env, loaded_seen, inserted, bseen, entered,
                   handed>>

\* line 167: rows_q.put(new_rows) blocks while the queue is full
Emit(w) ==
    /\ pc[w] = "emit"
    /\ Len(rows_q) < RowsQCap
    /\ rows_q' = Append(rows_q, Batch(new_rows[w]))
    /\ forwarded' = [k \in AllUids |-> forwarded[k] + CountIn(new_rows[w], k)]
    /\ pc' = [pc EXCEPT ![w] = "expand"]
    /\ UNCHANGED <<egress, disk, seen_ids, prefix_q, processed_counter,
                   prefix, data, new_rows, ch, retries, status, writer,
                   mlocal, env, loaded_seen, inserted, bseen, entered,
                   handed>>

\* lines 171-173: one turn of the loop over the alphabet
PutChild(w) ==
    /\ pc[w] = "expand"
    /\ ShouldExpand(data[w], prefix[w])
    /\ ch[w] \in Alphabet
    /\ prefix_q' = Append(prefix_q, Append(prefix[w], ch[w]))
    /\ inserted' = [inserted EXCEPT ![w] = Append(@, Append(prefix[w], ch[w]))]
    /\ entered' = entered \cup {Append(prefix[w], ch[w])}
    /\ ch' = [ch EXCEPT ![w] = ch[w] + 1]
    /\ UNCHANGED <<egress, disk, seen_ids, rows_q, processed_counter, pc,
                   prefix, data, new_rows, retries, status, writer, mlocal,
                   env, loaded_seen, forwarded, bseen, handed>>

\* lines 176-177: task_done(), sleep, next turn of the while loop
TaskDone(w) ==
    /\ pc[w] = "expand"
    /\ ~ShouldExpand(data[w], prefix[w]) \/ ch[w] \notin Alphabet
    /\ pc' = [pc EXCEPT ![w] = "get"]
    /\ prefix' = [prefix EXCEPT ![w] = <<>>]
    /\ data' = [data EXCEPT ![w] = <<>>]
    /\ new_rows' = [new_rows EXCEPT ![w] = <<>>]
    /\ ch' = [ch EXCEPT ![w] = 0]
    /\ retries' = [retries EXCEPT ![w] = 0]
    /\ status' = [status EXCEPT ![w] = 0]
    /\ inserted' = [inserted EXCEPT ![w] = <<>>]
    /\ UNCHANGED <<egress, disk, shared, writer, mlocal, env, loaded_seen,
                   forwarded, bseen, entered, handed>>

\* ---- writer_thread ---------------------------------------------------------
\* lines 131-133, 70-72: rows_q.get(); None ends the thread, a batch goes to
\* the CSV file
WriterGet ==
    /\ wpc = "get"
    /\ rows_q # <<>>
    /\ rows_q' = Tail(rows_q)
    /\ IF Head(rows_q).stop
       THEN wpc' = "exited" /\ UNCHANGED <<wrows, csv>>
       ELSE /\ wpc' = "jsonl"
            /\ wrows' = Head(rows_q).rows
            /\ csv' = csv \o Head(rows_q).rows
    /\ UNCHANGED <<egress, jsonl, state_file, seen_ids, prefix_q,
                   processed_counter, wlocal, mlocal, env, hist>>

\* lines 73-75 with a loop that misses the first row of the batch
WriterJsonl_DropsRow ==
    /\ wpc = "jsonl"
    /\ jsonl' = jsonl \o Tail(wrows)
    /\ wpc' = "get"
    /\ wrows' = <<>>
    /\ UNCHANGED <<egress, csv, state_file, shared, wlocal, mlocal, env,
                   hist>>

\* lines 73-75, 142: the batch goes to the JSONL file; task_done()
WriterJsonl ==
    /\ wpc = "jsonl"
    /\ jsonl' = jsonl \o wrows
    /\ wpc' = "get"
    /\ wrows' = <<>>
    /\ UNCHANGED <<egress, csv, state_file, shared, wlocal, mlocal, env,
                   hist>>

\* lines 70-75, 141: a write to a sink raises OSError (disk full, file
\* gone), to the CSV file or, the CSV rows written, to the JSONL file; the
\* exception leaves append_rows and writer_thread, which has no handler, and
\* the thread ends; nothing tells the other threads
WriterFail ==
    /\ \/ /\ wpc = "get"
          /\ rows_q # <<>>
          /\ ~Head(rows_q).stop
          /\ rows_q' = Tail(rows_q)
       \/ /\ wpc = "jsonl"
          /\ UNCHANGED rows_q
    /\ wpc' = "crashed"
    /\ wrows' = <<>>
    /\ UNCHANGED <<egress, disk, seen_ids, prefix_q, processed_counter,
                   wlocal, mlocal, env, hist>>

\* ---- the environment: the process is killed ---------------------------------
\* the memory is gone, the files stay; crawl() can be started again
Kill ==
    /\ mainpc \notin {"init", "returned", "stopped"}
    /\ kills < MaxKills
    /\ kills' = kills + 1
    /\ mainpc' = "init"
    /\ seen_ids' = {}
    /\ prefix_q' = <<>>
    /\ rows_q' = <<>>
    /\ processed_counter' = 0
    /\ pc' = [w \in Workers |-> "unborn"]
    /\ prefix' = [w \in Workers |-> <<>>]
    /\ data' = [w \in Workers |-> <<>>]
    /\ new_rows' = [w \in Workers |-> <<>>]
    /\ ch' = [w \in Workers |-> 0]
    /\ retries' = [w \in Workers |-> 0]
    /\ status' = [w \in Workers |-> 0]
    /\ wpc' = "unborn"
    /\ wrows' = <<>>
    /\ bq' = <<>>
    /\ bproc' = 0
    /\ loaded_seen' = {}
    /\ forwarded' = [k \in AllUids |-> 0]
    /\ inserted' = [w \in Workers |-> <<>>]
    /\ bseen' = {}
    /\ entered' = {}
    /\ handed' = {}
    /\ sess' = [w \in Workers |-> 0]
    /\ UNCHANGED <<PROXY_LIST, disk, source, backups, faults>>

\* ---- specifications ---------------------------------------------------------
MainStep == Start \/ MainStop \/ MainFinish

Backup == BackupCopy \/ BackupDump

WriterStep == WriterGet \/ WriterJsonl

WorkerStep(w) ==
    \/ Get(w) \/ GetEmpty(w) \/ ApiOk(w)
    \/ Dedup(w) \/ Emit(w) \/ PutChild(w) \/ TaskDone(w)

Fault(w) == ApiNotFound(w) \/ ApiHTTPError(w) \/ ApiTimeout(w)

\* every action
Next ==
    \/ MainStep
    \/ Backup
    \/ WriterStep
    \/ \E w \in Workers : WorkerStep(w)
    \/ \E w \in Workers : Fault(w)
    \/ WriterFail
    \/ Interrupt
    \/ Exit
    \/ Kill

Spec == Init /\ [][Next]_vars

\* one run of crawl() against any Record Source that answers every query
NextRun ==
    \/ MainStep
    \/ WriterStep
    \/ \E w \in Workers : WorkerStep(w)

SpecRun == Init /\ [][NextRun]_vars

\* one run of crawl() against any Record Source, with failing queries
NextCrawl ==
    \/ MainStep
    \/ WriterStep
    \/ \E w \in Workers : WorkerStep(w)
    \/ \E w \in Workers : Fault(w)

SpecCrawl == Init /\ [][NextCrawl]_vars

\* the same run under the scheduling of the threads: the writer thread and a
\* worker that can put its batch are not held back for ever
SpecLive ==
    /\ Init
    /\ [][NextCrawl]_vars
    /\ WF_vars(WriterStep)
    /\ \A w \in Workers : WF_vars(Emit(w))

\* one run of crawl() in which a write to a sink may fail
NextSink ==
    \/ MainStep
    \/ WriterStep
    \/ \E w \in Workers : WorkerStep(w)
    \/ WriterFail

SpecSink == Init /\ [][NextSink]_vars

\* one run of crawl() that the user may interrupt
NextInterrupt ==
    \/ MainStep
    \/ WriterStep
    \/ \E w \in Workers : WorkerStep(w)
    \/ Interrupt
    \/ Exit

SpecInterrupt == Init /\ [][NextInterrupt]_vars

\* one run of crawl() against a Record Source that answers every query, with
\* records, with 404 or after timeouts, under the scheduling of the threads:
\* as long as a thread can take a step, a step is taken
Answered(w) == ApiNotFound(w) \/ ApiTimeout(w)

NextAnswered ==
    \/ MainStep
    \/ WriterStep
    \/ \E w \in Workers : WorkerStep(w)
    \/ \E w \in Workers : Answered(w)

SpecFair ==
    /\ Init
    /\ [][NextAnswered]_vars
    /\ WF_vars(NextAnswered)

\* one run of crawl() with any list of up to MaxProxies proxies
InitEgress ==
    /\ source \in 0..MAX_DEPTH
    /\ PROXY_LIST \in {ProxyList(n) : n \in 1..MaxProxies}
    /\ csv = <<>>
    /\ jsonl = <<>>
    /\ state_file = NoFile
    /\ kills = 0
    /\ backups = 0
    /\ faults = 0
    /\ NotRunning

SpecEgress == InitEgress /\ [][NextRun]_vars

\* runs of crawl() with periodic backups, kills and restarts, against a
\* Record Source that answers every query
InitResume == Init /\ source <= MaxResumeChain

NextResume ==
    \/ MainStep
    \/ Backup
    \/ WriterStep
    \/ \E w \in Workers : WorkerStep(w)
    \/ Kill

SpecResume == InitResume /\ [][NextResume]_vars

\* one run of crawl() with periodic backups, against the same Record Sources
NextBackup ==
    \/ MainStep
    \/ Backup
    \/ WriterStep
    \/ \E w \in Workers : WorkerStep(w)

SpecBackup == InitResume /\ [][NextBackup]_vars

\* ---- properties ---------------------------------------------------------------
NoDuplicates(rows) ==
    \A i, j \in 1..Len(rows) : uid(rows[i]) = uid(rows[j]) => i = j

\* dequeued, and task_done() of that prefix not reached yet
InFlight(w) == pc[w] \in {"api", "dedup", "emit", "expand"}

Dedupped(w) == pc[w] \in {"emit", "expand"}

\* the uids one thread finds when it crawls the queue q to the end
RECURSIVE CrawlAll(_, _, _)
CrawlAll(n, q, keys) ==
    IF q = <<>> THEN keys
    ELSE LET p == Head(q)
             d == Query(n, p)
             kids == IF Len(d) = PageLimit /\ Len(p) < MAX_DEPTH
                     THEN [c \in 1..AlphabetSize |-> Append(p, c)]
                     ELSE <<>>
         IN  CrawlAll(n, Tail(q) \o kids, keys \cup UidsOf(d))

\* the rows with uid k that workers hold for a put not done yet
Pending(k) ==
    Cardinality({x \in Workers \X (1..PageLimit) :
                    /\ pc[x[1]] = "emit"
                    /\ x[2] <= Len(new_rows[x[1]])
                    /\ uid(new_rows[x[1]][x[2]]) = k})

\* C1: in one run, fresh or resumed, no uid is put on the result channel
\* twice, and a uid of the seen set loaded from the checkpoint is not put on
\* it at all; a uid the run added to the Dedup Index is in exactly one batch,
\* on its way to the channel or put on it.
C1_ForwardedAtMostOnce ==
    \A k \in AllUids :
        /\ forwarded[k] <= 1
        /\ k \in loaded_seen => forwarded[k] = 0
        /\ forwarded[k] + Pending(k) = IF k \in seen_ids \ loaded_seen THEN 1 ELSE 0

\* C1 witness: in a resumed run two workers hold answers for different
\* prefixes with a uid in common that the checkpoint had seen; neither
\* forwards it, and another uid of one of the answers went out once.
C1_Witness ==
    \E w1, w2 \in Workers :
        /\ w1 # w2
        /\ Dedupped(w1) /\ Dedupped(w2)
        /\ prefix[w1] # prefix[w2]
        /\ \E k \in UidsOf(data[w1]) \cap UidsOf(data[w2]) :
              k \in loaded_seen /\ forwarded[k] = 0
        /\ \E k \in UidsOf(data[w2]) : forwarded[k] = 1

\* C2: a worker returns only when the Frontier is empty and no other worker
\* is between its dequeue and the end of its expansion.
C2_ExitOnlyWhenNothingInFlight ==
    [][\A w \in Workers :
          (pc[w] = "get" /\ pc'[w] = "exited")
              => (prefix_q = <<>> /\ \A v \in Workers : ~InFlight(v))]_vars

\* C3: when a crawl, resumed after a kill or not, has returned, every uid of
\* the Dedup Index is in both sinks.
C3_AtLeastOnce ==
    mainpc = "returned" => seen_ids \subseteq (UidsOf(csv) \cap UidsOf(jsonl))

\* C4: no uid is twice in the tabular sink, none twice in the line-delimited
\* sink, kills and resumes included.
C4_SinksUnique == NoDuplicates(csv) /\ NoDuplicates(jsonl)

\* C5: when the crawl has returned, after a kill and a resume or without,
\* the sinks hold the uids of one uninterrupted crawl of the same Record
\* Source.
C5_ResumeIdempotent ==
    mainpc = "returned" => UidsOf(csv) = CrawlAll(source, Seeds, {})

\* C6: when crawl() writes its final snapshot and returns, no prefix is left
\* in the Frontier: each one that entered it was dequeued and queried.
C6_NoPrefixSkipped ==
    mainpc = "returned" => prefix_q = <<>>

\* C7: a worker that finishes a prefix has inserted one child per letter, in
\* order, when the answer is a full page and the prefix is shorter than
\* MAX_DEPTH, and nothing otherwise.
C7_ExpansionRule ==
    [][\A w \in Workers :
          (pc[w] = "expand" /\ pc'[w] = "get")
              => inserted[w] =
                    IF Len(data[w]) = PageLimit /\ Len(prefix[w]) < MAX_DEPTH
                    THEN [c \in 1..AlphabetSize |-> Append(prefix[w], c)]
                    ELSE <<>>]_vars

\* C7 witness: a worker about to finish a full-page prefix below MAX_DEPTH
\* has put all its children at the end of the Frontier.
C7_Witness ==
    \E w \in Workers :
        /\ pc[w] = "expand" /\ ch[w] = AlphabetSize + 1
        /\ Len(data[w]) = PageLimit /\ Len(prefix[w]) < MAX_DEPTH
        /\ Len(inserted[w]) = AlphabetSize
        /\ Len(prefix_q) >= AlphabetSize
        /\ SubSeq(prefix_q, Len(prefix_q) - AlphabetSize + 1, Len(prefix_q))
              = inserted[w]

\* C8: no prefix longer than MAX_DEPTH is in the Frontier, in the hands of a
\* worker or in a checkpoint.
C8_DepthBound ==
    /\ \A i \in 1..Len(prefix_q) : Len(prefix_q[i]) <= MAX_DEPTH
    /\ \A w \in Workers : Len(prefix[w]) <= MAX_DEPTH
    /\ \A i \in 1..Len(state_file.queue) : Len(state_file.queue[i]) <= MAX_DEPTH

\* C8 witness: a worker holds a full page for a prefix of MAX_DEPTH letters
\* and has inserted nothing.
C8_Witness ==
    \E w \in Workers :
        /\ pc[w] = "expand"
        /\ Len(prefix[w]) = MAX_DEPTH /\ Len(data[w]) = PageLimit
        /\ inserted[w] = <<>>

\* C9: the result channel never holds more than its capacity; a worker
\* leaves its put only by appending its batch, and it does leave it.
C9_Backpressure ==
    /\ [](Len(rows_q) <= RowsQCap)
    /\ [][\A w \in Workers :
            (pc[w] = "emit" /\ pc'[w] # "emit")
                => (new_rows[w] # <<>>
                    /\ rows_q' = Append(rows_q, Batch(new_rows[w])))]_vars
    /\ \A w \in Workers : (pc[w] = "emit") ~> (pc[w] = "expand")

\* C9 witness: the channel is full and a worker waits in its put.
C9_Witness ==
    /\ Len(rows_q) = RowsQCap
    /\ \E w \in Workers : pc[w] = "emit" /\ new_rows[w] # <<>>

\* C10: a worker whose query ended in an HTTP failure is still running.
C10_WorkerSurvivesHTTPFailure ==
    \A w \in Workers : (status[w] >= 400 /\ status[w] # 404) => is_alive(w)

\* C11: when the writer thread has ended on a failed write, no worker waits
\* in its put on a full result channel: nothing takes a batch off the channel
\* any more, so such a worker waits for ever, the pool never stops and
\* crawl() never ends.
C11_NoWorkerBlockedOnDeadConsumer ==
    wpc = "crashed"
        => \A w \in Workers : ~(pc[w] = "emit" /\ Len(rows_q) >= RowsQCap)

\* C12: after an interrupt no worker dequeues a prefix, and when the process
\* exits the checkpoint on disk is the one of that moment (the seen set and
\* the processed count of the run, the prefixes still pending) and no batch
\* is left on the result channel or half written by the writer.
C12_InterruptFlushes ==
    [][/\ mainpc = "interrupted"
            => \A w \in Workers : ~(pc[w] = "get" /\ pc'[w] = "api")
       /\ (mainpc = "interrupted" /\ mainpc' = "stopped")
            => /\ state_file.exists
               /\ state_file.seen_ids = seen_ids
               /\ state_file.processed = processed_counter
               /\ state_file.queue = prefix_q
               /\ \A w \in Workers : ~InFlight(w)
               /\ rows_q = <<>> /\ wpc # "jsonl"]_vars

\* api_call returned [] of line 109: the worker is past the call and no
\* response came
GaveUp(w) == pc[w] \in {"dedup", "emit", "expand"} /\ status[w] = 0

\* C13: sess.get is called at most 1 + ApiRetries times for one prefix (the
\* call number is ApiRetries - retries + 1); api_call gives up only with
\* retries 0, with an empty result and the prefix counted as processed; a
\* worker that gave up forwards no batch, inserts no child and goes back to
\* prefix_q.get.
C13_BoundedRetries ==
    /\ [](\A w \in Workers : retries[w] \in 0..ApiRetries)
    /\ [][\A w \in Workers :
            (pc[w] = "api" /\ pc'[w] = "dedup" /\ status'[w] = 0)
                => /\ retries[w] = 0
                   /\ data'[w] = <<>>
                   /\ processed_counter' = processed_counter + 1]_vars
    /\ [](\A w \in Workers :
            GaveUp(w) => (new_rows[w] = <<>> /\ inserted[w] = <<>>
                          /\ pc[w] # "emit"))
    /\ [][\A w \in Workers :
            (GaveUp(w) /\ pc'[w] # pc[w])
                => /\ pc'[w] = IF pc[w] = "dedup" THEN "expand" ELSE "get"
                   /\ rows_q' = rows_q
                   /\ prefix_q' = prefix_q]_vars

\* C13 witness: a worker made all its calls for a prefix in vain, the prefix
\* is counted, and the worker is about to go back to prefix_q.get while the
\* other one still works.
C13_Witness ==
    \E w \in Workers :
        /\ GaveUp(w) /\ pc[w] = "expand" /\ retries[w] = 0
        /\ prefix[w] # <<>>
        /\ processed_counter >= 1
        /\ \E v \in Workers : v # w /\ InFlight(v)

\* C14: the snapshot a periodic backup writes is the state of one moment of
\* the run.  Its pending list and its processed count are those of the
\* moment of line 229-230; the queue only loses heads and gains new tails
\* and the counter only grows, so the states in which both are as copied
\* are consecutive, the seen set only grows over them, and the snapshot is
\* the state of one moment exactly when the seen set it pickles is the one
\* of the last of these states.
C14_AtomicSnapshot ==
    [][(mainpc = "backup_dump" /\ mainpc' = "loop")
          => /\ state_file'.queue = bq
             /\ state_file'.processed = bproc
             /\ state_file'.seen_ids = bseen]_vars

\* the uids of the rows of a sink, in file order
KeySeq(rows) == [i \in 1..Len(rows) |-> uid(rows[i])]

EgressBound ==
    /\ [](\A w \in Workers :
            pc[w] # "unborn"
                => \E i \in 1..Len(PROXY_LIST) : sess[w] = PROXY_LIST[i])
    /\ [][\A w \in Workers :
            (pc[w] # "unborn" /\ pc'[w] # "unborn") => sess'[w] = sess[w]]_vars

C17_ConsumedOnce ==
    /\ [][/\ Len(prefix_q') > Len(prefix_q)
              => \A i \in (Len(prefix_q) + 1)..Len(prefix_q') :
                    prefix_q'[i] \notin entered
          /\ \A w \in Workers :
                (pc[w] = "get" /\ pc'[w] = "api") => prefix'[w] \notin handed]_vars
    /\ [](/\ \A i, j \in 1..Len(prefix_q) : prefix_q[i] = prefix_q[j] => i = j
          /\ \A i \in 1..Len(prefix_q) : prefix_q[i] \notin handed
          /\ \A v, w \in Workers :
                (v # w /\ InFlight(v) /\ InFlight(w)) => prefix[v] # prefix[w])

\* C17 witness: both workers hold a prefix, one of them a child that the
\* other's earlier expansion put on the queue, and children are still
\* waiting.
C17_Witness ==
    /\ \E v, w \in Workers :
          /\ v # w /\ InFlight(v) /\ InFlight(w)
          /\ Len(prefix[w]) >= 2
    /\ Cardinality(handed) >= 3
    /\ prefix_q # <<>>
    /\ handed \subseteq entered

\* C18: the sentinel is put when no worker is alive, the writer thread ends
\* only by taking the sentinel, and when crawl() has returned the uids in
\* each sink are the uids the run added to the seen set.
C18_AllBatchesWritten ==
    /\ [][(mainpc = "loop" /\ mainpc' = "join")
              => \A w \in Workers : ~is_alive(w)]_vars
    /\ [][(wpc \in {"get", "jsonl"} /\ wpc' \notin {"get", "jsonl"})
              => (wpc = "get" /\ rows_q # <<>> /\ Head(rows_q).stop)]_vars
    /\ [](mainpc = "returned"
            => /\ UidsOf(csv) = seen_ids \ loaded_seen
               /\ UidsOf(jsonl) = seen_ids \ loaded_seen)

\* C19: when crawl() writes its final snapshot, with an empty pending list,
\* the queue is empty and no worker holds a prefix it has not finished,
\* whatever made the workers stop.
C19_FinalSnapshotTruthful ==
    [][(mainpc = "join" /\ mainpc' = "returned")
          => /\ state_file'.queue = prefix_q
             /\ \A w \in Workers : prefix[w] = <<>>]_vars

\* C20: the crawl comes to its end: every worker has returned, the writer
\* has returned and crawl() has returned; no prefix longer than MAX_DEPTH
\* is ever put on the queue, so only finitely many are.
C20_Terminates ==
    /\ <>(/\ mainpc = "returned"
          /\ wpc = "exited"
          /\ \A w \in Workers : pc[w] = "exited")
    /\ [](\A p \in entered : Len(p) <= MAX_DEPTH)

\* C20 witness: crawl() has returned after a crawl that went below the
\* seeds and had a query that did not answer 200; all threads have returned.
C20_Witness ==
    /\ mainpc = "returned"
    /\ wpc = "exited"
    /\ \A w \in Workers : pc[w] = "exited"
    /\ faults > 0
    /\ Cardinality(handed) > AlphabetSize
    /\ csv # <<>>

====
